---- MODULE Spec2Model ----
(***************************************************************************)
(* Model of the natural-language query pipeline of the data hub:           *)
(*   QueryInterpreterService.interpret_query                               *)
(*   DatabaseQueryBuilder._build_query / execute_query                     *)
(*   MessageProcessingService.process_inbound_message                      *)
(*   MessageLogService.create_message_log                                  *)
(*   telegram_bot.handle_message                                           *)
(*                                                                         *)
(* Python values are kept with their run-time type where the code's        *)
(* behaviour depends on it (tuple / dict / str / int / list / None).       *)
(* Texts built with f-strings are sequences of string fragments; texts     *)
(* that the code inspects character by character (names, filter values,    *)
(* limit strings) are sequences of one-character strings.                  *)
(***************************************************************************)
EXTENDS Integers, Sequences, FiniteSets, TLC

VARIABLES
    employees,      \* storage: the employees table, in storage order
    products,       \* storage: the products table, in storage order
    message_logs,   \* storage: the message log table, in insertion order
    pc,             \* position of the message being handled
    caller,         \* "bot" (handle_message) or "direct" (a direct call of process_inbound_message)
    args,           \* arguments of the running process_inbound_message call
    employee_name_for_response,
    interpreted,    \* the pair interpret_query returned for this message
    llm_query_intent, \* the local variable of that name in process_inbound_message
    response,       \* system_response_content
    ret,            \* what process_inbound_message returned / raised
    reply,          \* the text handle_message sent with reply_text
    exec_calls,     \* calls of execute_query made for this message
    exec_arg,       \* the value the last of them was called with
    storage_reads,  \* read statements those calls sent to storage
    handled,        \* messages handled so far
    inbound_calls,  \* calls of process_inbound_message made so far
    q_intent,       \* SpecEngine: the intent execute_query was called with
    q_out,          \* SpecEngine: what that call returned / raised
    f_name,         \* SpecFormatter: the name lines 57-96 were run with
    f_step,         \* SpecFormatter: what lines 57-96 gave for q_intent
    handler,        \* SpecLoop: where the handle_message coroutine of each update is
    loop_owner,     \* SpecLoop: the update whose coroutine holds the event loop's thread (0: none)
    sender,         \* the Telegram id of the sender of the message being handled (0: none)
    sessions,       \* SpecLoop: the storage sessions the handlers opened
    http            \* SpecCrud: the last request served by the HTTP routes

vars == <<employees, products, message_logs, pc, caller, args,
          employee_name_for_response, interpreted, llm_query_intent, response, ret, reply, exec_calls,
          exec_arg, storage_reads, handled, inbound_calls, q_intent, q_out,
          f_name, f_step, handler, loop_owner, sender, sessions, http>>

pipeline_vars == <<message_logs, pc, caller, args, employee_name_for_response, interpreted,
                   llm_query_intent, response, ret, reply, exec_calls,
                   exec_arg, storage_reads, handled, inbound_calls, sender>>

-----------------------------------------------------------------------------
(* Bounds *)

\* messages handled in one behaviour
MaxMessages == 2

\* updates the bot receives in one behaviour
MaxUpdates == 4
Updates == 1..MaxUpdates

-----------------------------------------------------------------------------
(* Python values *)

NONE == "None"                       \* Python None where a str is expected

PyNone == [ty |-> "none", v |-> NONE]
PyStr(s) == [ty |-> "str", v |-> s]
PyInt(n) == [ty |-> "int", v |-> n]
PyList(l) == [ty |-> "list", v |-> l]
PyDict(d) == [ty |-> "dict", v |-> d]
PyTuple(t) == [ty |-> "tuple", v |-> t]

\* a == b of Python, for the value kinds of this model
PyEq(a, b) == a.ty = b.ty /\ a.v = b.v

\* dict.get(k, default) on a mapping held as a function on its keys
Get(d, k, default) == IF k \in DOMAIN d THEN d[k] ELSE default

\* truthiness of a str-or-None
Truthy(s) == s # NONE /\ s # ""

\* str.lower() on a sequence of characters
LowerChar(c) ==
    CASE c = "N" -> "n" [] c = "U" -> "u" [] c = "L" -> "l"
      [] c = "A" -> "a" [] c = "B" -> "b" [] c = "Z" -> "z"
      [] c = "J" -> "j" [] c = "O" -> "o"
      [] OTHER -> c

Lower(s) == [i \in 1..Len(s) |-> LowerChar(s[i])]

IsDigit(c) == c \in {"0", "1", "2", "3", "4", "5", "6", "7", "8", "9"}

DigitValue(c) ==
    CASE c = "0" -> 0 [] c = "1" -> 1 [] c = "2" -> 2 [] c = "3" -> 3
      [] c = "4" -> 4 [] c = "5" -> 5 [] c = "6" -> 6 [] c = "7" -> 7
      [] c = "8" -> 8 [] c = "9" -> 9

RECURSIVE DigitsValue(_)
DigitsValue(s) ==
    IF s = <<>> THEN 0
    ELSE 10 * DigitsValue(SubSeq(s, 1, Len(s) - 1)) + DigitValue(s[Len(s)])

AllDigits(s) == s # <<>> /\ \A i \in 1..Len(s) : IsDigit(s[i])

\* int(x): [ok, exc, n]
IntOf(x) ==
    CASE x.ty = "int" -> [ok |-> TRUE, exc |-> NONE, n |-> x.v]
      [] x.ty = "str" ->
            LET s == x.v
                signed == s # <<>> /\ s[1] \in {"-", "+"}
                digits == IF signed THEN Tail(s) ELSE s
            IN  IF AllDigits(digits)
                THEN [ok |-> TRUE, exc |-> NONE,
                      n |-> IF signed /\ s[1] = "-" THEN 0 - DigitsValue(digits)
                            ELSE DigitsValue(digits)]
                ELSE [ok |-> FALSE, exc |-> "ValueError", n |-> 0]
      [] OTHER -> [ok |-> FALSE, exc |-> "TypeError", n |-> 0]


-----------------------------------------------------------------------------
(* Storage cells and the two queryable tables *)

Uuid(n) == [ty |-> "uuid", v |-> n]
Text(s) == [ty |-> "text", v |-> s]
Dec(n) == [ty |-> "decimal", v |-> n]
Num(n) == [ty |-> "int", v |-> n]
Bool(b) == [ty |-> "bool", v |-> b]
Stamp(n) == [ty |-> "datetime", v |-> n]
Null == [ty |-> "none", v |-> NONE]

\* model_map: the table names the engine knows
model_map == {"employees", "products"}

\* the mapped columns of each table, in declaration order (a column of every
\* type the serialiser distinguishes is kept)
TableColumns(model) ==
    IF model = "employees"
    THEN <<"id", "name", "phone_number", "telegram_id", "email", "is_authenticated">>
    ELSE <<"id", "name", "product_manager_id", "price", "stock_quantity",
           "is_active", "created_at">>

\* relationship attributes of each ORM class: name -> target table
Relationships(model) ==
    IF model = "products" THEN [product_manager |-> "employees"]
    ELSE <<>>

SeqToSet(s) == {s[i] : i \in 1..Len(s)}

\* hasattr(model, attr): mapped columns and relationship attributes
HasAttr(model, attr) ==
    \/ attr \in SeqToSet(TableColumns(model))
    \/ attr \in DOMAIN Relationships(model)

IsColumn(model, attr) == attr \in SeqToSet(TableColumns(model))

\* the foreign key column behind a relationship attribute
ForeignKeyOf(rel) == "product_manager_id"

Table(db, model) == IF model = "employees" THEN db.employees ELSE db.products

-----------------------------------------------------------------------------
(* ILIKE: case-insensitive LIKE, % any run of characters, _ any one character *)

RECURSIVE LikeMatch(_, _)
LikeMatch(p, s) ==
    IF p = <<>> THEN s = <<>>
    ELSE IF Head(p) = "%"
         THEN LikeMatch(Tail(p), s) \/ (s # <<>> /\ LikeMatch(p, Tail(s)))
         ELSE /\ s # <<>>
              /\ (Head(p) = "_" \/ Head(p) = Head(s))
              /\ LikeMatch(Tail(p), Tail(s))

\* column.ilike(f"%{value}%")
ILike(cell, value) == LikeMatch(<<"%">> \o Lower(value) \o <<"%">>, Lower(cell))

-----------------------------------------------------------------------------
(* Exceptions and results *)

Raise(exc, msg) == [err |-> TRUE, exc |-> exc, msg |-> msg]

RowDict(pairs) == pairs

\* d[k] = v on an insertion-ordered dict held as a sequence of [k, v]
DictSet(d, k, v) ==
    IF \E i \in 1..Len(d) : d[i].k = k
    THEN [i \in 1..Len(d) |-> IF d[i].k = k THEN [k |-> k, v |-> v] ELSE d[i]]
    ELSE Append(d, [k |-> k, v |-> v])

DictHas(d, k) == \E i \in 1..Len(d) : d[i].k = k

DictGet(d, k) == d[CHOOSE i \in 1..Len(d) : d[i].k = k].v

\* [{"error": message}]
Sentinel(msg) == << <<[k |-> "error", v |-> [ty |-> "str", v |-> msg]]>> >>

IsSentinel(result) ==
    /\ Len(result) = 1
    /\ Len(result[1]) = 1
    /\ result[1][1].k = "error"

-----------------------------------------------------------------------------
(* DatabaseQueryBuilder._build_query *)

\* join_on.replace('_id', '') if join_on.endswith('_id') else join_on,
\* for the join_on values the intents of this model carry
RelationshipName(join_on) ==
    CASE join_on = "product_manager_id" -> "product_manager"
      [] join_on = "bogus_id" -> "bogus"
      [] join_on = "name_id" -> "name"
      [] OTHER -> join_on

\* the entities selected from the primary table (lines 37-45): unknown
\* names are left out by the hasattr filter
PrimaryEntities(primary_model, columns) ==
    IF columns # <<>> /\ "*" \notin SeqToSet(columns)
    THEN SelectSeq([i \in 1..Len(columns) |-> [model |-> primary_model, col |-> columns[i]]],
                   LAMBDA e : HasAttr(primary_model, e.col))
    ELSE [i \in 1..Len(TableColumns(primary_model)) |->
            [model |-> primary_model, col |-> TableColumns(primary_model)[i]]]

\* whether the join block (lines 48-72) is entered
JoinRequested(join_table, join_on, join_columns) ==
    Truthy(join_table) /\ Truthy(join_on) /\ join_columns.ty # "none"

\* the join block: the error it raises, or the entities it appends
JoinPart(table_name, join_table, join_on, join_columns) ==
    LET relationship_name == RelationshipName(join_on)
        badcols == {i \in 1..Len(join_columns) : ~HasAttr(join_table, join_columns[i])}
    IN  IF join_table \notin model_map
        THEN Raise("ValueError", <<"Unknown join_table name: ", join_table>>)
        ELSE IF ~HasAttr(table_name, relationship_name)
        THEN Raise("ValueError", <<"Relationship '", relationship_name,
                                   "' not found on primary table '", table_name, "' for join.">>)
        ELSE IF relationship_name \notin DOMAIN Relationships(table_name)
        THEN \* query.join() of a column attribute: rejected by the ORM
             Raise("ArgumentError", <<"Join target ", relationship_name,
                                      " does not refer to a mapped entity">>)
        ELSE IF badcols # {}
        THEN Raise("ValueError",
                   <<"Requested join_column '",
                     join_columns[CHOOSE i \in badcols : \A j \in badcols : i <= j],
                     "' not found in join_table '", join_table, "'.">>)
        ELSE [err |-> FALSE,
              rel |-> relationship_name,
              entities |-> [i \in 1..Len(join_columns) |->
                              [model |-> join_table, col |-> join_columns[i]]]]

\* the model a filter key is resolved on (lines 76-79), or the error of the
\* getattr that follows
FilterTarget(primary_model, join_table, joined_bound, col_name) ==
    IF HasAttr(primary_model, col_name)
    THEN [err |-> FALSE, model |-> primary_model]
    ELSE IF ~Truthy(join_table)
    THEN Raise("AttributeError", <<"type object has no attribute '", col_name, "'">>)
    ELSE IF ~joined_bound
    THEN Raise("UnboundLocalError", <<"local variable 'joined_model' referenced before assignment">>)
    ELSE IF HasAttr(join_table, col_name)
    THEN [err |-> FALSE, model |-> join_table]
    ELSE Raise("AttributeError", <<"type object has no attribute '", col_name, "'">>)

\* the predicate one filter adds (lines 81-86)
FilterPredicate(target_model, col_name, value) ==
    [model |-> target_model, col |-> col_name,
     op |-> IF value.ty = "str" THEN "ilike" ELSE "eq",
     value |-> value]

\* the filter loop (lines 75-86): the first error, or the predicates
FilterPart(primary_model, join_table, joined_bound, filters) ==
    LET target(i) == FilterTarget(primary_model, join_table, joined_bound, filters[i].k)
        bad == {i \in 1..Len(filters) : target(i).err}
    IN  IF bad # {}
        THEN target(CHOOSE i \in bad : \A j \in bad : i <= j)
        ELSE [err |-> FALSE,
              preds |-> [i \in 1..Len(filters) |->
                           FilterPredicate(target(i).model, filters[i].k, filters[i].v)]]

\* lines 74-88, after the join block: the error of the filter loop, or the query
BuildFiltered(table_name, columns, join, fp) ==
    IF fp.err THEN fp
    ELSE [err |-> FALSE,
          primary |-> table_name,
          entities |-> PrimaryEntities(table_name, columns) \o join.entities,
          rel |-> join.rel,
          preds |-> fp.preds]

\* lines 47-88, with the outcome of the join block
BuildJoined(table_name, filters, columns, join_table, joining, join) ==
    IF join.err THEN join
    ELSE BuildFiltered(table_name, columns, join,
                       FilterPart(table_name, join_table, joining, filters))

\* _build_query: an exception, or the query it built (not yet executed)
BuildQuery(table_name, filters, columns, join_table, join_on, join_columns) ==
    IF table_name \notin model_map
    THEN Raise("ValueError", <<"Unknown primary table name: ", table_name>>)
    ELSE IF JoinRequested(join_table, join_on, join_columns)
    THEN BuildJoined(table_name, filters, columns, join_table, TRUE,
                     JoinPart(table_name, join_table, join_on, join_columns.v))
    ELSE BuildJoined(table_name, filters, columns, join_table, FALSE,
                     [err |-> FALSE, rel |-> NONE, entities |-> <<>>])

-----------------------------------------------------------------------------
(* Execution of a built query by the storage layer: query.limit(n).all() *)

ColumnType(model, col) ==
    CASE col \in {"id", "product_manager_id"} -> "uuid"
      [] col \in {"name", "phone_number", "email"} -> "text"
      [] col = "price" -> "decimal"
      [] col \in {"stock_quantity", "telegram_id"} -> "int"
      [] col \in {"is_active", "is_authenticated"} -> "bool"
      [] col = "created_at" -> "datetime"

\* whether storage accepts the comparison a predicate makes (PostgreSQL has
\* no ILIKE on a non-text column and no = between a text column and a number)
PredTyped(pred) ==
    LET t == ColumnType(pred.model, pred.col)
    IN  IF pred.op = "ilike" THEN t = "text"
        ELSE pred.value.ty = "int" /\ t \in {"int", "decimal"}

\* rows of the primary table, each with the row its relationship joins it to
\* (inner join: primary rows without a partner are dropped)
RECURSIVE SourceRows(_, _, _)
SourceRows(db, q, i) ==
    LET base == Table(db, q.primary)
    IN  IF i > Len(base) THEN <<>>
        ELSE LET p == base[i]
                 target == Table(db, Relationships(q.primary)[q.rel])
                 partners == SelectSeq(target, LAMBDA e : PyEq(e.id, p[ForeignKeyOf(q.rel)]))
                 here == IF q.rel = NONE THEN <<[p |-> p, j |-> <<>>]>>
                         ELSE [k \in 1..Len(partners) |-> [p |-> p, j |-> partners[k]]]
             IN  here \o SourceRows(db, q, i + 1)

CellOf(q, src, model, col) == IF model = q.primary THEN src.p[col] ELSE src.j[col]

PredHolds(q, src, pred) ==
    LET cell == CellOf(q, src, pred.model, pred.col)
    IN  IF cell.ty = "none" THEN FALSE
        ELSE IF pred.op = "ilike" THEN ILike(cell.v, pred.value.v)
        ELSE cell.v = pred.value.v

\* a query on which .limit(n) has no effect
LimitIgnored(rows, limit) == rows

\* limit: [none |-> TRUE] or [none |-> FALSE, n |-> a positive number]
Limited(rows, limit) ==
    IF ~limit.none /\ limit.n > 0 /\ limit.n < Len(rows)
    THEN SubSeq(rows, 1, limit.n)
    ELSE rows

\* query.all(): [err, exc, msg, read, rows]; `read` tells whether a statement
\* reached storage
RunQuery(db, q, limit) ==
    IF q.entities = <<>>
    THEN [err |-> TRUE, exc |-> "InvalidRequestError", read |-> FALSE, rows |-> <<>>,
          msg |-> <<"Query contains no columns with which to SELECT from.">>]
    ELSE IF \E i \in 1..Len(q.preds) : ~PredTyped(q.preds[i])
    THEN [err |-> TRUE, exc |-> "ProgrammingError", read |-> TRUE, rows |-> <<>>,
          msg |-> <<"operator does not exist">>]
    ELSE
    LET matching == SelectSeq(SourceRows(db, q, 1),
                              LAMBDA src : \A i \in 1..Len(q.preds) : PredHolds(q, src, q.preds[i]))
        taken == Limited(matching, limit)
    IN  [err |-> FALSE, exc |-> NONE, read |-> TRUE, msg |-> <<>>,
         rows |-> [r \in 1..Len(taken) |->
                     [i \in 1..Len(q.entities) |->
                        CellOf(q, taken[r], q.entities[i].model, q.entities[i].col)]]]

-----------------------------------------------------------------------------
(* DatabaseQueryBuilder.execute_query *)

DigitChars == <<"0", "1", "2", "3", "4", "5", "6", "7", "8", "9">>

\* str(n) for n >= 0, as a sequence of characters
RECURSIVE NumStr(_)
NumStr(n) ==
    IF n < 10 THEN <<DigitChars[n + 1]>>
    ELSE NumStr(n \div 10) \o <<DigitChars[(n % 10) + 1]>>

\* the value conversion of lines 155-162 (and 172-179, 185-192)
Serialize(val) ==
    CASE val.ty = "uuid" -> [ty |-> "str", v |-> <<"uuid-">> \o NumStr(val.v)]
      [] val.ty = "datetime" -> [ty |-> "str", v |-> <<"iso-">> \o NumStr(val.v)]
      [] val.ty = "decimal" -> [ty |-> "float", v |-> val.v]
      [] OTHER -> val

\* lines 107-118: the limit taken from raw_limit, or the TypeError int() lets out
ParseLimit(raw_limit) ==
    IF raw_limit.ty = "none"
    THEN [raised |-> FALSE, none |-> TRUE, n |-> 0]
    ELSE IF raw_limit.ty = "str" /\ Lower(raw_limit.v) = <<"n", "u", "l", "l">>
    THEN [raised |-> FALSE, none |-> TRUE, n |-> 0]
    ELSE LET r == IntOf(raw_limit)
         IN  IF r.ok /\ r.n > 0 THEN [raised |-> FALSE, none |-> FALSE, n |-> r.n]
             ELSE IF r.ok \/ r.exc = "ValueError"
             THEN [raised |-> FALSE, none |-> TRUE, n |-> 0]
             ELSE [raised |-> TRUE, none |-> TRUE, n |-> 0]

\* the names the result tuples are read under (lines 142-148, 168-184)
FinalColumnNames(primary_model, columns, joining, join_columns) ==
    (IF columns # <<>> /\ "*" \notin SeqToSet(columns) THEN columns
     ELSE TableColumns(primary_model))
    \o (IF joining THEN join_columns.v ELSE <<>>)

RECURSIVE RowToDict(_, _, _)
RowToDict(names, tuple, i) ==
    IF i = 0 THEN <<>>
    ELSE DictSet(RowToDict(names, tuple, i - 1), names[i], Serialize(tuple[i]))

Returned(result, reads) ==
    [raised |-> FALSE, exc |-> NONE, msg |-> <<>>, result |-> result, reads |-> reads]

Raised(exc, msg) ==
    [raised |-> TRUE, exc |-> exc, msg |-> msg, result |-> <<>>, reads |-> 0]

\* the two except clauses of lines 198-203
Caught(e, reads) ==
    IF e.exc = "ValueError" THEN Returned(Sentinel(e.msg), reads)
    ELSE Returned(Sentinel(<<"An unexpected database error occurred: ">> \o e.msg), reads)

\* lines 137-196: the rows query.all() gave, turned into dicts
FormatRows(q, run, names) ==
    IF run.err THEN Caught(run, IF run.read THEN 1 ELSE 0)
    ELSE IF run.rows # <<>> /\ Len(names) > Len(q.entities)
    THEN Caught(Raise("IndexError", <<"tuple index out of range">>), 1)
    ELSE Returned([r \in 1..Len(run.rows) |-> RowToDict(names, run.rows[r], Len(names))], 1)

\* lines 130-196, with the outcome of _build_query
RunBuilt(db, q, limit, names) ==
    IF q.err THEN Caught(q, 0)
    ELSE FormatRows(q, RunQuery(db, q, limit), names)

\* lines 125-203: the guarded part of execute_query
GuardedQuery(db, table_name, filters, columns, limit, join_table, join_on, join_columns) ==
    IF table_name \notin model_map
    THEN Caught(Raise("ValueError", <<"Unknown table name: ", table_name>>), 0)
    ELSE RunBuilt(db,
                  BuildQuery(table_name, filters, columns, join_table, join_on, join_columns),
                  limit,
                  FinalColumnNames(table_name, columns,
                                   JoinRequested(join_table, join_on, join_columns),
                                   join_columns))

\* lines 97-203 for a mapping d, with the limit of lines 107-118
ExecuteIntent(db, d, limit) ==
    IF limit.raised
    THEN Raised("TypeError", <<"int() argument must be a string, a bytes-like object or a real number">>)
    ELSE IF Get(d, "action", NONE) # "get_data"
    THEN Raised("ValueError", <<"Unsupported action: ", Get(d, "action", NONE),
                                ". Only 'get_data' is supported.">>)
    ELSE IF ~Truthy(Get(d, "table", NONE))
    THEN Raised("ValueError", <<"Query intent missing 'table' name.">>)
    ELSE GuardedQuery(db, Get(d, "table", NONE), Get(d, "filters", <<>>),
                      Get(d, "columns", <<"*">>), limit, Get(d, "join_table", NONE),
                      Get(d, "join_on", NONE), Get(d, "join_columns", PyNone))

\* execute_query(query_intent) on storage db: [raised, exc, msg, result, reads]
ExecuteQuery(db, query_intent) ==
    IF query_intent.ty # "dict"
    THEN Raised("AttributeError",
                <<"'", query_intent.ty, "' object has no attribute 'get'">>)
    ELSE ExecuteIntent(db, query_intent.v, ParseLimit(Get(query_intent.v, "limit", PyNone)))

-----------------------------------------------------------------------------
(* Storage contents the behaviours start from *)

Employee(id, nm, phone, telegram, email, auth) ==
    [id |-> Uuid(id), name |-> nm, phone_number |-> phone, telegram_id |-> Num(telegram),
     email |-> Text(email), is_authenticated |-> Bool(auth)]

Product(id, nm, manager, stock) ==
    [id |-> Uuid(id), name |-> Text(nm), product_manager_id |-> manager, price |-> Dec(5),
     stock_quantity |-> Num(stock), is_active |-> Bool(stock > 0), created_at |-> Stamp(id),
     updated_at |-> Stamp(id)]

EmployeesFixture ==
    << Employee(1, Text(<<"A", "l", " ", "B">>), Text(<<"+", "1">>), 1, <<"a", "@", "x">>, TRUE),
       Employee(2, Text(<<"Z", "o">>), Text(<<"+", "2">>), 2, <<"z", "@", "x">>, FALSE),
       Employee(3, Null, Null, 3, <<"n", "@", "x">>, TRUE) >>

ProductRows ==
    << Product(11, <<"A", "b">>, Uuid(1), 3),
       Product(12, <<"b", "a", "z">>, Null, 0),
       Product(13, <<"J", "o">>, Uuid(2), 1) >>

\* the products table holds the first n of these rows
ProductFixtures == {SubSeq(ProductRows, 1, n) : n \in 0..Len(ProductRows)}

Storage == [employees |-> employees, products |-> products]

-----------------------------------------------------------------------------
(* Intents handed to execute_query: every combination of the options below *)

Absent == [has |-> FALSE]
Given(v) == [has |-> TRUE, v |-> v]
Field(k, o) == IF o.has THEN k :> o.v ELSE <<>>

IntentHead(t, a) == [table |-> t, action |-> a]
HeadOptions ==
    << IntentHead(Given("products"), Given("get_data")),
       IntentHead(Given("employees"), Given("get_data")),
       IntentHead(Given("bogus"), Given("get_data")),
       IntentHead(Absent, Given("get_data")),
       IntentHead(Given("products"), Given("delete")),
       IntentHead(Given("products"), Absent) >>
ColumnsOptions ==
    <<Absent, Given(<<"*">>), Given(<<"id">>), Given(<<"name">>),
      Given(<<"name", "bogus">>), Given(<<"bogus">>)>>
FiltersOptions ==
    <<Absent, Given(<<>>),
      Given(<<[k |-> "name", v |-> PyStr(<<"a">>)]>>),
      Given(<<[k |-> "name", v |-> PyStr(<<"q">>)]>>),
      Given(<<[k |-> "bogus", v |-> PyStr(<<"a">>)]>>),
      Given(<<[k |-> "email", v |-> PyStr(<<"@">>)]>>),
      Given(<<[k |-> "stock_quantity", v |-> PyInt(3)]>>),
      Given(<<[k |-> "id", v |-> PyStr(<<"1">>)]>>),
      Given(<<[k |-> "name", v |-> PyStr(<<"%">>)]>>),
      Given(<<[k |-> "name", v |-> PyStr(<<"_", "b">>)]>>),
      Given(<<[k |-> "name", v |-> PyStr(<<"'", " ", "-", "-">>)]>>)>>
LimitOptions ==
    <<Absent, Given(PyNone), Given(PyStr(<<"N", "u", "l", "l">>)), Given(PyStr(<<"2">>)),
      Given(PyStr(<<"a", "b", "c">>)), Given(PyStr(<<"0">>)), Given(PyStr(<<"-", "1">>)),
      Given(PyInt(1)), Given(PyList(<<>>))>>

Join(t, on, cols) == [join_table |-> t, join_on |-> on, join_columns |-> cols]
JoinOptions ==
    << Join(Absent, Absent, Absent),
       Join(Given("employees"), Given("product_manager_id"), Given(PyList(<<"name">>))),
       Join(Given("employees"), Given("product_manager_id"), Given(PyList(<<>>))),
       Join(Given("bogus"), Given("product_manager_id"), Given(PyList(<<"name">>))),
       Join(Given("employees"), Given("bogus_id"), Given(PyList(<<"name">>))),
       Join(Given("employees"), Given("name"), Given(PyList(<<"name">>))),
       Join(Given("employees"), Given("product_manager_id"), Given(PyList(<<"bogus">>))),
       Join(Given("bogus"), Absent, Absent),
       Join(Given("employees"), Absent, Given(PyList(<<"bogus">>))),
       Join(Absent, Given("bogus_id"), Absent),
       Join(Given("employees"), Absent, Absent) >>

Intent(h, c, f, l, j) ==
    PyDict(Field("table", h.table) @@ Field("action", h.action) @@ Field("columns", c)
           @@ Field("filters", f) @@ Field("limit", l)
           @@ Field("join_table", j.join_table) @@ Field("join_on", j.join_on)
           @@ Field("join_columns", j.join_columns))

NoCall == [raised |-> FALSE, exc |-> NONE, msg |-> <<>>, result |-> <<>>, reads |-> 0]

-----------------------------------------------------------------------------
(* QueryInterpreterService.interpret_query *)

\* what the backend call does: it throws, or its message carries this content
Throws == [kind |-> "throws", text |-> NONE]
Content(text) == [kind |-> "content", text |-> text]

CountIntentText == "{\"table\": \"products\", \"action\": \"get_data\", \"columns\": [\"id\"], \"filters\": {}}"
LookupIntentText == "{\"table\": \"products\", \"action\": \"get_data\", \"columns\": [\"name\"], \"filters\": {\"name\": \"a\"}, \"limit\": \"null\"}"
MissIntentText == "{\"table\": \"products\", \"action\": \"get_data\", \"columns\": [\"name\"], \"filters\": {\"name\": \"q\"}}"
JoinIntentText == "{\"table\": \"products\", \"action\": \"get_data\", \"columns\": [\"name\"], \"filters\": {\"name\": \"Ab\"}, \"join_table\": \"employees\", \"join_on\": \"product_manager_id\", \"join_columns\": [\"name\"], \"limit\": \"1\"}"
DeleteText == "{\"table\": \"products\", \"action\": \"delete\"}"
UnclearText == "{\"table\": \"products\", \"action\": \"get_data\", \"error\": \"unclear\"}"
NoTableText == "{\"action\": \"get_data\"}"
ErrorOnlyText == "{\"error\": \"unclear\"}"

BackendOutcomes ==
    { Throws, Content(NONE), Content(""), Content("I cannot help"), Content("error"),
      Content("[1]"), Content(NoTableText), Content(ErrorOnlyText), Content(UnclearText),
      Content(CountIntentText), Content(LookupIntentText), Content(MissIntentText), Content(JoinIntentText),
      Content(DeleteText) }

\* json.loads(text) for the contents above: [ok, value]
JsonLoads(text) ==
    CASE text = CountIntentText ->
           [ok |-> TRUE, value |-> PyDict([table |-> "products", action |-> "get_data",
                                           columns |-> <<"id">>, filters |-> <<>>])]
      [] text = LookupIntentText ->
           [ok |-> TRUE, value |-> PyDict([table |-> "products", action |-> "get_data",
                                           columns |-> <<"name">>,
                                           filters |-> <<[k |-> "name", v |-> PyStr(<<"a">>)]>>,
                                           limit |-> PyStr(<<"n", "u", "l", "l">>)])]
      [] text = MissIntentText ->
           [ok |-> TRUE, value |-> PyDict([table |-> "products", action |-> "get_data",
                                           columns |-> <<"name">>,
                                           filters |-> <<[k |-> "name", v |-> PyStr(<<"q">>)]>>])]
      [] text = JoinIntentText ->
           [ok |-> TRUE, value |-> PyDict([table |-> "products", action |-> "get_data",
                                           columns |-> <<"name">>,
                                           filters |-> <<[k |-> "name", v |-> PyStr(<<"A", "b">>)]>>,
                                           join_table |-> "employees",
                                           join_on |-> "product_manager_id",
                                           join_columns |-> PyList(<<"name">>),
                                           limit |-> PyStr(<<"1">>)])]
      [] text = DeleteText ->
           [ok |-> TRUE, value |-> PyDict([table |-> "products", action |-> "delete"])]
      [] text = UnclearText ->
           [ok |-> TRUE, value |-> PyDict([table |-> "products", action |-> "get_data",
                                           error |-> <<"unclear">>])]
      [] text = NoTableText ->
           [ok |-> TRUE, value |-> PyDict([action |-> "get_data"])]
      [] text = ErrorOnlyText ->
           [ok |-> TRUE, value |-> PyDict([error |-> <<"unclear">>])]
      [] text = "[1]" ->
           [ok |-> TRUE, value |-> PyList(<<1>>)]
      [] OTHER -> [ok |-> FALSE, value |-> PyNone]

\* the intent of the except clauses (lines 183-189)
JsonErrorIntent ==
    PyDict([error |-> <<"Internal error: The AI was not able to interpret the query as valid JSON: (",
                        "JSONDecodeError", ")">>])
FailureIntent(e) ==
    PyDict([error |-> <<"An error occurred while AI processing your query. (", e, ")">>])

\* interpret_query without the validation of lines 176-179
InterpretUnvalidated(outcome) ==
    IF outcome.kind = "throws"
    THEN PyTuple(<<FailureIntent("backend call failed"), PyNone>>)
    ELSE IF outcome.text = NONE
    THEN PyTuple(<<FailureIntent("the JSON object must be str, bytes or bytearray, not NoneType"),
                   PyNone>>)
    ELSE IF ~JsonLoads(outcome.text).ok
    THEN PyTuple(<<JsonErrorIntent, PyStr(outcome.text)>>)
    ELSE PyTuple(<<JsonLoads(outcome.text).value, PyStr(outcome.text)>>)

\* interpret_query: the pair (intent, raw backend text) it returns
InterpretQuery(outcome) ==
    IF outcome.kind = "throws"
    THEN PyTuple(<<FailureIntent("backend call failed"), PyNone>>)
    ELSE IF outcome.text = NONE
    THEN PyTuple(<<FailureIntent("the JSON object must be str, bytes or bytearray, not NoneType"),
                   PyNone>>)
    ELSE
    LET parsed == JsonLoads(outcome.text)
    IN  IF ~parsed.ok
        THEN PyTuple(<<JsonErrorIntent, PyStr(outcome.text)>>)
        ELSE IF parsed.value.ty # "dict"
        THEN PyTuple(<<FailureIntent("LLM response is not a valid JSON object."), PyNone>>)
        ELSE IF "table" \notin DOMAIN parsed.value.v \/ "action" \notin DOMAIN parsed.value.v
        THEN PyTuple(<<FailureIntent("LLM response missing 'table' or 'action' key."), PyNone>>)
        ELSE PyTuple(<<parsed.value, PyStr(outcome.text)>>)

-----------------------------------------------------------------------------
(* MessageProcessingService.process_inbound_message: its steps as operators *)

\* key in container
Contains(container, key) ==
    CASE container.ty = "dict" -> key \in DOMAIN container.v
      [] container.ty = "tuple" ->
           \E i \in 1..Len(container.v) :
               container.v[i].ty = "str" /\ container.v[i].v = key
      [] OTHER -> FALSE

\* name.split(' ')[0]
RECURSIVE SplitFirst(_)
SplitFirst(s) ==
    IF s = <<>> \/ Head(s) = " " THEN <<>>
    ELSE <<Head(s)>> \o SplitFirst(Tail(s))

\* EmployeeService.get_employee_by_id: the rows with that id (query ... .first()
\* takes the first of them)
GetEmployeeById(rows, id) == SelectSeq(rows, LAMBDA e : PyEq(e.id, id))

\* lines 47-52, given that the lookup did not fail
NameForResponse(rows, employee_id) ==
    IF employee_id.ty = "none" THEN <<"there">>
    ELSE LET found == GetEmployeeById(rows, employee_id)
         IN  IF found # <<>> /\ found[1].name.ty # "none" /\ found[1].name.v # <<>>
             THEN SplitFirst(found[1].name.v)
             ELSE <<"there">>

\* line 55: what the local variable llm_query_intent is bound to
ReceiveIntent(pair) == pair

\* k.replace('_', ' ').title() for the keys result rows carry
TitleCase(k) ==
    CASE k = "id" -> "Id" [] k = "name" -> "Name" [] k = "email" -> "Email"
      [] k = "price" -> "Price" [] k = "error" -> "Error" [] k = "bogus" -> "Bogus"
      [] k = "product_manager_id" -> "Product Manager Id"
      [] k = "stock_quantity" -> "Stock Quantity"
      [] k = "is_active" -> "Is Active"
      [] k = "created_at" -> "Created At"
      [] k = "phone_number" -> "Phone Number"
      [] k = "telegram_id" -> "Telegram Id"
      [] k = "is_authenticated" -> "Is Authenticated"

\* str(v) inside an f-string
StrOf(val) ==
    CASE val.ty \in {"text", "str"} -> val.v
      [] val.ty = "float" -> NumStr(val.v) \o <<".0">>
      [] val.ty = "int" -> NumStr(val.v)
      [] val.ty = "bool" -> IF val.v THEN <<"True">> ELSE <<"False">>
      [] OTHER -> <<"None">>

\* ", ".join(f"{k.replace('_', ' ').title()}: {v}" for k, v in item.items())
RECURSIVE FormatItem(_, _)
FormatItem(item, i) ==
    IF i = 0 THEN <<>>
    ELSE FormatItem(item, i - 1)
         \o (IF i > 1 THEN <<", ">> ELSE <<>>)
         \o <<TitleCase(item[i].k), ": ">> \o StrOf(item[i].v)

\* "\n".join(formatted_results)
RECURSIVE FormatResults(_, _)
FormatResults(db_results, i) ==
    IF i = 0 THEN <<>>
    ELSE FormatResults(db_results, i - 1)
         \o (IF i > 1 THEN <<"\n">> ELSE <<>>)
         \o FormatItem(db_results[i], Len(db_results[i]))

\* table.rstrip('s')
RStripS(table) ==
    CASE table = "products" -> "product"
      [] table = "employees" -> "employee"
      [] table = "items" -> "item"
      [] OTHER -> table

UnderstandText(nm, error) ==
    <<"Sorry ">> \o nm \o <<", I couldn't understand your request: ">> \o error
QueryErrorText(nm, error) ==
    <<"Sorry ">> \o nm \o <<", an error occurred while querying the database: ">> \o error
CountSentence(nm, count, table) ==
    <<"There are ">> \o NumStr(count) \o <<" ", RStripS(table), "s in the database, ">> \o nm \o <<".">>
NotFoundText(nm) ==
    <<"Sorry ">> \o nm \o <<", I couldn't find any information matching your request.">>
RowsText(nm, db_results) ==
    <<"Here is the information you requested, ">> \o nm \o <<":\n">>
    \o FormatResults(db_results, Len(db_results))
LookupErrorText(nm, e) ==
    <<"Sorry ">> \o nm \o <<", an unexpected error occurred during the database lookup: ">> \o e

\* lines 65-92 without the branch of lines 79-80
RenderWithoutEmptyRule(nm, intent, db_results) ==
    LET d == intent.v
    IN  IF db_results # <<>> /\ DictHas(db_results[1], "error")
        THEN QueryErrorText(nm, DictGet(db_results[1], "error").v)
        ELSE IF /\ Get(d, "action", NONE) = "get_data"
                /\ "columns" \in DOMAIN d /\ d.columns = <<"id">>
                /\ "filters" \in DOMAIN d /\ d.filters = <<>>
        THEN CountSentence(nm, Len(db_results), Get(d, "table", "items"))
        ELSE RowsText(nm, db_results)

\* lines 65-92 with the count branch tested before the sentinel branch
RenderCountFirst(nm, intent, db_results) ==
    LET d == intent.v
    IN  IF /\ Get(d, "action", NONE) = "get_data"
           /\ "columns" \in DOMAIN d /\ d.columns = <<"id">>
           /\ "filters" \in DOMAIN d /\ d.filters = <<>>
        THEN CountSentence(nm, Len(db_results), Get(d, "table", "items"))
        ELSE IF db_results # <<>> /\ DictHas(db_results[1], "error")
        THEN QueryErrorText(nm, DictGet(db_results[1], "error").v)
        ELSE IF db_results = <<>>
        THEN NotFoundText(nm)
        ELSE RowsText(nm, db_results)

\* lines 65-92: the text rendered from the result of execute_query
RenderResult(nm, intent, db_results) ==
    LET d == intent.v
    IN  IF db_results # <<>> /\ DictHas(db_results[1], "error")
        THEN QueryErrorText(nm, DictGet(db_results[1], "error").v)
        ELSE IF /\ Get(d, "action", NONE) = "get_data"
                /\ "columns" \in DOMAIN d /\ d.columns = <<"id">>
                /\ "filters" \in DOMAIN d /\ d.filters = <<>>
        THEN CountSentence(nm, Len(db_results), Get(d, "table", "items"))
        ELSE IF db_results = <<>>
        THEN NotFoundText(nm)
        ELSE RowsText(nm, db_results)

Step(raised, exc, text, calls, arg, rds) ==
    [raised |-> raised, exc |-> exc, response |-> text, exec_calls |-> calls,
     exec_arg |-> arg, reads |-> rds]

\* lines 62-96, with the outcome of execute_query
RespondToResult(nm, intent, out) ==
    IF out.raised
    THEN Step(FALSE, NONE, LookupErrorText(nm, out.msg), 1, intent, out.reads)
    ELSE Step(FALSE, NONE, RenderResult(nm, intent, out.result), 1, intent, out.reads)

\* lines 57-96: [raised, exc, response, exec_calls, exec_arg, reads]
Respond(db, nm, intent) ==
    IF Contains(intent, "error") /\ intent.ty # "dict"
    THEN \* llm_query_intent["error"] on a tuple
         Step(TRUE, "TypeError", <<>>, 0, PyNone, 0)
    ELSE IF Contains(intent, "error") /\ intent.v.error # <<>>
    THEN Step(FALSE, NONE, UnderstandText(nm, intent.v.error), 0, PyNone, 0)
    ELSE RespondToResult(nm, intent, ExecuteQuery(db, intent))

\* lines 57-96 not run
NoStep == Step(FALSE, NONE, <<>>, 0, PyNone, 0)

-----------------------------------------------------------------------------
(* MessageLogService.create_message_log and the bot's texts *)

\* MessageLogCreate(...) of lines 100-107: pydantic rejects a phone_number
\* that is not a str
MessageLogCreateValid(a) == a.phone_number.ty # "none"

\* the default of the timestamp column: datetime.now(...) is called once,
\* when the column is declared, and every row gets that value
ImportTime == Stamp(0)

\* the row create_message_log builds from message_log_data (lines 29-35):
\* columns it does not pass stay NULL
CreateMessageLog(id, message_log_data) ==
    [id |-> id,
     employee_id |-> message_log_data.employee_id,
     direction |-> "inbound",
     raw_message_content |-> message_log_data.raw_message_content,
     status |-> "received",
     phone_number |-> message_log_data.phone_number,
     ai_interpreted_command |-> PyNone,
     system_response_content |-> PyNone,
     timestamp |-> ImportTime]

NoLog == [id |-> 0, employee_id |-> Null, direction |-> NONE, raw_message_content |-> NONE,
          status |-> NONE, phone_number |-> Null, ai_interpreted_command |-> PyNone,
          system_response_content |-> PyNone]

NotReturned == [kind |-> "none", exc |-> NONE, log |-> NoLog]
ReturnedLog(log) == [kind |-> "returned", exc |-> NONE, log |-> log]
RaisedOut(exc) == [kind |-> "raised", exc |-> exc, log |-> NoLog]

\* x or "Message processed." (bot.py line 119)
ResponseText(db_message_log) ==
    IF db_message_log.system_response_content.ty # "none"
       /\ db_message_log.system_response_content.v # <<>>
    THEN db_message_log.system_response_content.v
    ELSE <<"Message processed.">>

InternalErrorText == <<"An internal error occurred while processing your message. [handle_message]">>
ShareContactText == <<"Hello! Your telegram ID is not known in the system.\n",
                      "Please share your number by clicking the 'Share contact details' button ",
                      "so that I can authenticate and identify you.">>
MagicLinkText(nm) ==
    <<"Hello ">> \o nm \o <<", your account is not authenticated, yet.",
                            "Please click the link to verify your identity:\n",
                            "\n", "magic_link", "\n\n",
                            "After that I can process your messages.">>

-----------------------------------------------------------------------------
(* Inputs *)

RawTexts == {"How many products are in stock?", "Who is the product manager for Ab?"}
TelegramIds == {1, 2, 3, 9}
DirectEmployeeIds == <<Null, Uuid(1), Uuid(9)>>
DirectPhones == <<Null, Text(<<"+", "9">>)>>

-----------------------------------------------------------------------------
(* The state machine *)

\* no handler has opened a storage session
NoSessions == [made |-> 0, of |-> [u \in Updates |-> 0], open |-> {}, path |-> [u \in Updates |-> "none"]]

\* no request has been served
NoRequest == [n |-> 0, op |-> "none"]

NoArgs == [employee_id |-> Null, raw_message_content |-> NONE, phone_number |-> Null]

\* the per-message variables before a message arrives
Cleared ==
    /\ caller = NONE
    /\ args = NoArgs
    /\ employee_name_for_response = <<>>
    /\ interpreted = PyNone
    /\ llm_query_intent = PyNone
    /\ response = PyNone
    /\ ret = NotReturned
    /\ reply = PyNone
    /\ exec_calls = 0
    /\ exec_arg = PyNone
    /\ storage_reads = 0
    /\ sender = 0

Init ==
    /\ employees = EmployeesFixture
    /\ products \in ProductFixtures
    /\ message_logs = <<>>
    /\ handled = 0
    /\ inbound_calls = 0
    /\ pc = "idle"
    /\ Cleared
    /\ q_intent = PyNone
    /\ q_out = NoCall
    /\ f_name = <<>>
    /\ f_step = NoStep
    /\ handler = [u \in Updates |-> "absent"]
    /\ loop_owner = 0
    /\ sessions = NoSessions
    /\ http = NoRequest

engine_vars == <<q_intent, q_out, f_name, f_step, handler, loop_owner, sessions, http>>
storage_vars == <<employees, products>>

\* the end of a call of process_inbound_message that raised exc
RaiseFromCall(exc) ==
    /\ ret' = RaisedOut(exc)
    /\ pc' = IF caller = "bot" THEN "returned" ELSE "done"

\* handle_message without the check of line 87
AuthenticationSkipped(employee_instance) == TRUE

\* bot.py line 87: employee_instance.is_authenticated
IsAuthenticated(employee_instance) == employee_instance.is_authenticated.v

\* bot.py lines 47-111 and 121-130: handle_message up to the call of
\* process_inbound_message, or to its early reply
HandleMessage(telegram_id, text) ==
    /\ pc = "idle"
    /\ handled < MaxMessages
    /\ handled' = handled + 1
    /\ caller' = "bot"
    /\ sender' = telegram_id
    /\ LET found == SelectSeq(employees, LAMBDA e : e.telegram_id.v = telegram_id)
       IN  IF found = <<>>
           THEN /\ reply' = PyStr(ShareContactText)
                /\ pc' = "done"
                /\ UNCHANGED <<args, inbound_calls>>
           ELSE IF ~IsAuthenticated(found[1])
           THEN /\ reply' = PyStr(MagicLinkText(StrOf(found[1].name)))
                /\ pc' = "done"
                /\ UNCHANGED <<args, inbound_calls>>
           ELSE /\ args' = [employee_id |-> found[1].id,
                            raw_message_content |-> text,
                            phone_number |->
                                IF found[1].phone_number.ty # "none" /\ found[1].phone_number.v # <<>>
                                THEN found[1].phone_number
                                ELSE Text(<<"telegram:">> \o NumStr(telegram_id))]
                /\ inbound_calls' = inbound_calls + 1
                /\ pc' = "identify"
                /\ UNCHANGED reply
    /\ UNCHANGED <<message_logs, employee_name_for_response, interpreted, llm_query_intent,
                   response, ret, exec_calls, exec_arg, storage_reads>>
    /\ UNCHANGED <<storage_vars, engine_vars>>

\* a call of process_inbound_message by another caller than the bot
DirectCall(employee_id, text, phone_number) ==
    /\ pc = "idle"
    /\ handled < MaxMessages
    /\ handled' = handled + 1
    /\ caller' = "direct"
    /\ sender' = 0
    /\ inbound_calls' = inbound_calls + 1
    /\ args' = [employee_id |-> employee_id, raw_message_content |-> text,
                phone_number |-> phone_number]
    /\ pc' = "identify"
    /\ UNCHANGED <<message_logs, employee_name_for_response, interpreted, llm_query_intent,
                   response, ret, reply, exec_calls, exec_arg, storage_reads>>
    /\ UNCHANGED <<storage_vars, engine_vars>>

\* lines 47-52; the lookup is a storage read that may fail
Identify ==
    /\ pc = "identify"
    /\ \/ /\ employee_name_for_response' = NameForResponse(employees, args.employee_id)
          /\ pc' = "interpret"
          /\ UNCHANGED ret
       \/ /\ args.employee_id.ty # "none"
          /\ RaiseFromCall("OperationalError")
          /\ UNCHANGED employee_name_for_response
    /\ UNCHANGED <<message_logs, caller, args, interpreted, llm_query_intent, response,
                   reply, exec_calls, exec_arg, storage_reads, handled, inbound_calls>>
    /\ UNCHANGED <<storage_vars, engine_vars, sender>>

\* line 55
Interpret ==
    /\ pc = "interpret"
    /\ \E outcome \in BackendOutcomes :
          /\ interpreted' = InterpretQuery(outcome)
          /\ llm_query_intent' = ReceiveIntent(interpreted')
    /\ pc' = "respond"
    /\ UNCHANGED <<message_logs, caller, args, employee_name_for_response, response, ret,
                   reply, exec_calls, exec_arg, storage_reads, handled, inbound_calls>>
    /\ UNCHANGED <<storage_vars, engine_vars, sender>>

\* the state after lines 57-96 gave r
Responded(r) ==
    /\ exec_calls' = exec_calls + r.exec_calls
    /\ exec_arg' = r.exec_arg
    /\ storage_reads' = storage_reads + r.reads
    /\ IF r.raised
       THEN /\ RaiseFromCall(r.exc)
            /\ UNCHANGED response
       ELSE /\ response' = PyStr(r.response)
            /\ pc' = "persist"
            /\ UNCHANGED ret

\* lines 57-96
RespondStep ==
    /\ pc = "respond"
    /\ Responded(Respond(Storage, employee_name_for_response, llm_query_intent))
    /\ UNCHANGED <<message_logs, caller, args, employee_name_for_response, interpreted,
                   llm_query_intent, reply, handled, inbound_calls>>
    /\ UNCHANGED <<storage_vars, engine_vars, sender>>

\* lines 98-114; the commit is a storage write that may fail
Persist ==
    /\ pc = "persist"
    /\ IF ~MessageLogCreateValid(args)
       THEN /\ RaiseFromCall("ValidationError")
            /\ UNCHANGED message_logs
       ELSE \/ LET db_message_log == CreateMessageLog(Len(message_logs) + 1, args)
               IN  /\ message_logs' = Append(message_logs, db_message_log)
                   /\ ret' = ReturnedLog(db_message_log)
                   /\ pc' = IF caller = "bot" THEN "returned" ELSE "done"
            \/ /\ RaiseFromCall("OperationalError")
               /\ UNCHANGED message_logs
    /\ UNCHANGED <<caller, args, employee_name_for_response, interpreted, llm_query_intent,
                   response, reply, exec_calls, exec_arg, storage_reads, handled, inbound_calls>>
    /\ UNCHANGED <<storage_vars, engine_vars, sender>>

\* bot.py lines 119 and 132-138: the reply after process_inbound_message
BotReply ==
    /\ pc = "returned"
    /\ reply' = IF ret.kind = "raised" THEN PyStr(InternalErrorText)
                ELSE PyStr(ResponseText(ret.log))
    /\ pc' = "done"
    /\ UNCHANGED <<message_logs, caller, args, employee_name_for_response, interpreted,
                   llm_query_intent, response, ret, exec_calls, exec_arg, storage_reads,
                   handled, inbound_calls>>
    /\ UNCHANGED <<storage_vars, engine_vars, sender>>

\* the handler is over: its locals are gone
Finish ==
    /\ pc = "done"
    /\ pc' = "idle"
    /\ caller' = NONE
    /\ args' = NoArgs
    /\ employee_name_for_response' = <<>>
    /\ interpreted' = PyNone
    /\ llm_query_intent' = PyNone
    /\ response' = PyNone
    /\ ret' = NotReturned
    /\ reply' = PyNone
    /\ exec_calls' = 0
    /\ exec_arg' = PyNone
    /\ storage_reads' = 0
    /\ sender' = 0
    /\ UNCHANGED <<message_logs, handled, inbound_calls>>
    /\ UNCHANGED <<storage_vars, engine_vars>>

Next ==
    \/ \E t \in TelegramIds, text \in RawTexts : HandleMessage(t, text)
    \/ \E i \in 1..Len(DirectEmployeeIds), j \in 1..Len(DirectPhones), text \in RawTexts :
          DirectCall(DirectEmployeeIds[i], text, DirectPhones[j])
    \/ Identify
    \/ Interpret
    \/ RespondStep
    \/ Persist
    \/ BotReply
    \/ Finish

Spec == Init /\ [][Next]_vars

-----------------------------------------------------------------------------
(* DatabaseQueryBuilder.execute_query called on its own, once, with any intent *)

ExecuteQueryCall(intent) ==
    /\ pc = "idle"
    /\ q_intent.ty = "none"
    /\ q_intent' = intent
    /\ q_out' = ExecuteQuery(Storage, intent)
    /\ UNCHANGED <<pipeline_vars, storage_vars, f_name, f_step, handler, loop_owner,
                   sessions, http>>

NextEngine ==
    /\ q_intent.ty = "none"
    /\ \E h \in 1..Len(HeadOptions), c \in 1..Len(ColumnsOptions),
          f \in 1..Len(FiltersOptions), l \in 1..Len(LimitOptions), j \in 1..Len(JoinOptions) :
           ExecuteQueryCall(Intent(HeadOptions[h], ColumnsOptions[c], FiltersOptions[f],
                                   LimitOptions[l], JoinOptions[j]))

SpecEngine == Init /\ [][NextEngine]_vars

-----------------------------------------------------------------------------
(* Lines 57-96 of process_inbound_message on their own: what they render     *)
(* when llm_query_intent is a mapping, for every combination of the options  *)
(* below and both kinds of name                                              *)

ErrorOptions == <<Absent, Given(<<>>), Given(<<"unclear">>)>>
FormatHeads ==
    << IntentHead(Given("products"), Given("get_data")),
       IntentHead(Given("employees"), Given("get_data")),
       IntentHead(Given("bogus"), Given("get_data")) >>
FormatColumns == <<Absent, Given(<<"id">>), Given(<<"name">>), Given(<<"name", "bogus">>)>>
FormatFilters ==
    <<Absent, Given(<<>>),
      Given(<<[k |-> "name", v |-> PyStr(<<"a">>)]>>),
      Given(<<[k |-> "name", v |-> PyStr(<<"q">>)]>>),
      Given(<<[k |-> "name", v |-> PyStr(<<"A", "b">>)]>>)>>
FormatLimits == <<Absent, Given(PyStr(<<"2">>))>>
FormatJoins ==
    << Join(Absent, Absent, Absent),
       Join(Given("employees"), Given("product_manager_id"), Given(PyList(<<"name">>))) >>
FormatNames == {<<"there">>, <<"A", "l">>}

\* Intent(...) with an error field
WithError(intent, e) == PyDict(intent.v @@ Field("error", e))

FormatterCall(nm, intent) ==
    /\ pc = "idle"
    /\ q_intent.ty = "none"
    /\ q_intent' = intent
    /\ f_name' = nm
    /\ f_step' = Respond(Storage, nm, intent)
    /\ q_out' = IF f_step'.exec_calls = 0 THEN NoCall ELSE ExecuteQuery(Storage, intent)
    /\ UNCHANGED <<pipeline_vars, storage_vars, handler, loop_owner, sessions, http>>

NextFormatter ==
    /\ q_intent.ty = "none"
    /\ \E nm \in FormatNames, h \in 1..Len(FormatHeads), c \in 1..Len(FormatColumns),
          f \in 1..Len(FormatFilters), l \in 1..Len(FormatLimits),
          j \in 1..Len(FormatJoins), e \in 1..Len(ErrorOptions) :
           FormatterCall(nm, WithError(Intent(FormatHeads[h], FormatColumns[c], FormatFilters[f],
                                              FormatLimits[l], FormatJoins[j]),
                                       ErrorOptions[e]))

SpecFormatter == Init /\ [][NextFormatter]_vars

-----------------------------------------------------------------------------
(* The bot's event loop: the handle_message coroutines of several updates    *)
(* on the one thread of Application.run_polling.  A coroutine keeps the      *)
(* thread until it awaits something that suspends it.                        *)

\* bot.py line 243: the application is built without concurrent_updates, so
\* an update is dispatched only when the handler of the one before is over
concurrent_updates == FALSE

InFlight(u) == handler[u] \in {"in_backend", "replying"}

others_vars == <<pipeline_vars, storage_vars, q_intent, q_out, f_name, f_step, http>>

\* bot.py lines 58-59 and database.py lines 28-32: session_local_instance()
\* makes a new Session, which the handler of u holds as db
OpenSession(s, u) ==
    [s EXCEPT !.made = @ + 1, !.of[u] = s.made + 1, !.open = @ \cup {s.made + 1}]

\* the way the handler of u leaves its try block: "normal" past line 133,
\* "early" by the return of line 108 or 130, "exception" through line 135
Leaves(s, u, path) == [s EXCEPT !.path[u] = path]

\* handle_message with db.close() after the try block, not in a finally
CloseOnNormalPath(s, u) ==
    IF s.path[u] = "normal" THEN [s EXCEPT !.open = @ \ {s.of[u]}] ELSE s

\* bot.py lines 139-140: finally: db.close()
CloseSession(s, u) == [s EXCEPT !.open = @ \ {s.of[u]}]

\* an update reaches the bot's update queue
Arrive(u) ==
    /\ handler[u] = "absent"
    /\ handler' = [handler EXCEPT ![u] = "queued"]
    /\ UNCHANGED <<loop_owner, sessions, others_vars>>

\* bot.py lines 47-113 and query_interpreter_service.py lines 152-156: the
\* coroutine of u is started and runs, without suspending, into the call of
\* the synchronous client (authenticated employee), or to the await of
\* reply_text (lines 107, 130)
Dispatch(u) ==
    /\ handler[u] = "queued"
    /\ loop_owner = 0
    /\ concurrent_updates \/ \A v \in Updates : ~InFlight(v)
    /\ \/ /\ handler' = [handler EXCEPT ![u] = "in_backend"]
          /\ loop_owner' = u
          /\ sessions' = OpenSession(sessions, u)
       \/ /\ handler' = [handler EXCEPT ![u] = "replying"]
          /\ \E path \in {"early", "exception"} :
                sessions' = Leaves(OpenSession(sessions, u), u, path)
          /\ UNCHANGED loop_owner
    /\ UNCHANGED others_vars

\* query_interpreter_service.py lines 156-189 and bot.py lines 113-133: the
\* client's call returns in the thread it blocked, and the coroutine runs on
\* to the await of reply_text, where it gives up the thread
BackendReturns(u) ==
    /\ handler[u] = "in_backend"
    /\ loop_owner = u
    /\ handler' = [handler EXCEPT ![u] = "replying"]
    /\ loop_owner' = 0
    /\ \E path \in {"normal", "exception"} : sessions' = Leaves(sessions, u, path)
    /\ UNCHANGED others_vars

\* bot.py lines 133-140: reply_text is over, the coroutine is resumed and ends
Replied(u) ==
    /\ handler[u] = "replying"
    /\ loop_owner = 0
    /\ handler' = [handler EXCEPT ![u] = "done"]
    /\ sessions' = CloseSession(sessions, u)
    /\ UNCHANGED <<loop_owner, others_vars>>

\* a step of the coroutine of u
HandlerStep(u) == Dispatch(u) \/ BackendReturns(u) \/ Replied(u)

NextLoop ==
    \E u \in Updates : Arrive(u) \/ Dispatch(u) \/ BackendReturns(u) \/ Replied(u)

SpecLoop == Init /\ [][NextLoop]_vars

-----------------------------------------------------------------------------
(* The HTTP routes of employees, products and message logs: requests are     *)
(* served one at a time, each in a storage session of its own (get_db)       *)

\* requests served in one behaviour
MaxRequests == 2

\* everything but the tables and the last request
crud_frame == <<pc, caller, args, employee_name_for_response, interpreted, llm_query_intent,
                response, ret, reply, exec_calls, exec_arg, storage_reads, handled,
                inbound_calls, sender, q_intent, q_out, f_name, f_step, handler, loop_owner,
                sessions>>

\* column = value in a WHERE clause or a unique index: NULL equals nothing
SqlEq(a, b) == a.ty # "none" /\ b.ty # "none" /\ PyEq(a, b)

\* what a service method did: the value it returned or the exception it
\* raised, and the table after it
Done(row, rows) == [raised |-> FALSE, exc |-> NONE, msg |-> <<>>, body |-> <<row>>, rows |-> rows]
Fail(exc, msg, rows) == [raised |-> TRUE, exc |-> exc, msg |-> msg, body |-> <<>>, rows |-> rows]

\* needle in str(e), for messages held as sequences of fragments
InText(needle, msg) == \E i \in 1..Len(msg) : msg[i] = needle

\* the status a route answers with: ok when the service returned; for a
\* ValueError 404 when its text holds not_found, else 400; any other
\* exception leaves the route and the framework answers 500
RouteStatus(result, ok, not_found) ==
    IF ~result.raised THEN ok
    ELSE IF result.exc # "ValueError" THEN 500
    ELSE IF InText(not_found, result.msg) THEN 404
    ELSE 400

\* the record of a served request
Served(op, id, req, result, status) ==
    [n |-> http.n + 1, op |-> op, id |-> id, req |-> req, status |-> status,
     detail |-> result.msg, body |-> result.body,
     employees_before |-> employees, products_before |-> products,
     logs_before |-> message_logs,
     last |-> IF http.n = 0 THEN NoRequest
              ELSE [n |-> http.n, op |-> http.op, id |-> http.id, req |-> http.req,
                    status |-> http.status]]

\* the position of the row with this id, 0 when there is none (.first())
RowOf(rows, id) ==
    IF \E i \in 1..Len(rows) : rows[i].id = Uuid(id)
    THEN CHOOSE i \in 1..Len(rows) : rows[i].id = Uuid(id)
    ELSE 0

\* the table without its row i
Without(rows, i) == SubSeq(rows, 1, i - 1) \o SubSeq(rows, i + 1, Len(rows))

\* uuid4() of the row a request creates
FreshId == 20 + http.n + 1

\* setattr(row, key, value) for every item of update_data
SetAttrs(row, update_data) ==
    [f \in DOMAIN row |-> IF f \in DOMAIN update_data THEN update_data[f] ELSE row[f]]

-----------------------------------------------------------------------------
(* EmployeeService and the employees routes *)

\* lines 28-33 with the email left out of the filter
EmployeeExistsByPhone(rows, employee_data) ==
    \E i \in 1..Len(rows) : SqlEq(rows[i].phone_number, employee_data.phone_number)

\* lines 28-33: an employee with this phone number or this email
EmployeeExists(rows, employee_data) ==
    \E i \in 1..Len(rows) :
        \/ SqlEq(rows[i].phone_number, employee_data.phone_number)
        \/ SqlEq(rows[i].email, employee_data.email)

\* the unique indexes of the employees table on phone_number and on email
UniqueViolation(rows) ==
    \E i, j \in 1..Len(rows) :
        /\ i # j
        /\ \/ SqlEq(rows[i].phone_number, rows[j].phone_number)
           \/ SqlEq(rows[i].email, rows[j].email)

\* models.Employee(...) of lines 38-45, as stored
NewEmployee(id, employee_data) ==
    [id |-> Uuid(id), name |-> employee_data.name, phone_number |-> employee_data.phone_number,
     telegram_id |-> Null, email |-> employee_data.email, is_authenticated |-> Bool(FALSE)]

\* EmployeeService.create_employee; the commit of line 48 is in no try
CreateEmployee(rows, id, employee_data) ==
    IF EmployeeExists(rows, employee_data)
    THEN Fail("ValueError", <<"Employee with this phone number or email already exists.">>, rows)
    ELSE IF UniqueViolation(Append(rows, NewEmployee(id, employee_data)))
    THEN Fail("IntegrityError", <<"duplicate key value violates unique constraint">>, rows)
    ELSE Done(NewEmployee(id, employee_data), Append(rows, NewEmployee(id, employee_data)))

\* employee_update_data.model_dump(): the unset fields too, with the
\* defaults EmployeeUpdate declares
ModelDumpWithDefaults(payload) ==
    [f \in {"name", "phone_number", "email", "is_authenticated"} |->
        IF f \in DOMAIN payload THEN payload[f] ELSE Text(<<"Optional, str">>)]

\* employee_update_data.model_dump(exclude_unset=True): the fields the
\* request carries
ModelDump(payload) == payload

\* lines 150-162 on the row at position i
CommitEmployee(rows, i, update_data) ==
    IF UniqueViolation([rows EXCEPT ![i] = SetAttrs(rows[i], update_data)])
    THEN Fail("ValueError", <<"Database error updating employee: ",
                              "duplicate key value violates unique constraint">>, rows)
    ELSE Done(SetAttrs(rows[i], update_data),
              [rows EXCEPT ![i] = SetAttrs(rows[i], update_data)])

\* EmployeeService.update_employee
UpdateEmployee(rows, employee_id, payload) ==
    IF RowOf(rows, employee_id) = 0
    THEN Fail("ValueError", <<"Employee not found">>, rows)
    ELSE CommitEmployee(rows, RowOf(rows, employee_id), ModelDump(payload))

\* the products that name this employee as their manager
ManagedBy(prods, employee_id) ==
    {j \in 1..Len(prods) : prods[j].product_manager_id = Uuid(employee_id)}

\* POST /employees/
PostEmployee(employee_data) ==
    /\ http.n < MaxRequests
    /\ LET r == CreateEmployee(employees, FreshId, employee_data)
       IN  /\ employees' = r.rows
           /\ http' = Served("create_employee", FreshId, employee_data, r,
                             IF ~r.raised THEN 201 ELSE IF r.exc = "ValueError" THEN 400 ELSE 500)
    /\ UNCHANGED <<products, message_logs, crud_frame>>

\* PATCH /employees/{employee_id}
PatchEmployee(employee_id, payload) ==
    /\ http.n < MaxRequests
    /\ LET r == UpdateEmployee(employees, employee_id, payload)
       IN  /\ employees' = r.rows
           /\ http' = Served("update_employee", employee_id, payload, r,
                             RouteStatus(r, 200, "Employee not found"))
    /\ UNCHANGED <<products, message_logs, crud_frame>>

\* DELETE /employees/{employee_id}; what the commit of line 176 does to the
\* products the employee manages is decided by the foreign key of
\* products.product_manager_id: the delete is refused, or the references
\* are set to NULL
DeleteEmployee(employee_id) ==
    /\ http.n < MaxRequests
    /\ IF RowOf(employees, employee_id) = 0
       THEN /\ http' = Served("delete_employee", employee_id, <<>>,
                              Fail("ValueError", <<"Employee not found">>, employees), 404)
            /\ UNCHANGED <<employees, products>>
       ELSE \/ /\ employees' = Without(employees, RowOf(employees, employee_id))
               /\ products' = [j \in 1..Len(products) |->
                                 IF j \in ManagedBy(products, employee_id)
                                 THEN [products[j] EXCEPT !.product_manager_id = Null]
                                 ELSE products[j]]
               /\ http' = Served("delete_employee", employee_id, <<>>,
                                 Done(employees[RowOf(employees, employee_id)], employees'), 204)
            \/ /\ ManagedBy(products, employee_id) # {}
               /\ http' = Served("delete_employee", employee_id, <<>>,
                                 Fail("IntegrityError", <<"violates foreign key constraint">>,
                                      employees), 500)
               /\ UNCHANGED <<employees, products>>
    /\ UNCHANGED <<message_logs, crud_frame>>

\* the requests sent to the employees routes
EmployeeTargets == {1, 2, 9, 21}
NewNames == {Text(<<"N", "e">>)}
NewPhones == {Text(<<"+", "1">>), Text(<<"+", "5">>)}
NewEmails == {Text(<<"a", "@", "x">>), Text(<<"q", "@", "x">>)}
EmployeePayloads ==
    << <<>>,
       [name |-> Text(<<"N", "e">>)],
       [email |-> Text(<<"z", "@", "x">>)],
       [email |-> Text(<<"q", "@", "x">>)],
       [phone_number |-> Text(<<"+", "2">>)],
       [phone_number |-> Text(<<"+", "5">>), is_authenticated |-> Bool(TRUE)],
       [name |-> Text(<<"N", "e">>), email |-> Text(<<"a", "@", "x">>)] >>

NextEmployees ==
    \/ \E nm \in NewNames, ph \in NewPhones, em \in NewEmails :
          PostEmployee([name |-> nm, phone_number |-> ph, email |-> em])
    \/ \E id \in EmployeeTargets, k \in 1..Len(EmployeePayloads) :
          PatchEmployee(id, EmployeePayloads[k])
    \/ \E id \in EmployeeTargets : DeleteEmployee(id)

SpecEmployees == Init /\ [][NextEmployees]_vars

-----------------------------------------------------------------------------
(* ProductService and the products routes *)

\* datetime.now() while the request after http is served
Now == Stamp(50 + http.n)

\* .filter(models.Product.name == name).first(): its position, 0 for None
ProductNamed(rows, name) ==
    IF \E i \in 1..Len(rows) : SqlEq(rows[i].name, name)
    THEN CHOOSE i \in 1..Len(rows) :
            /\ SqlEq(rows[i].name, name)
            /\ \A k \in 1..(i - 1) : ~SqlEq(rows[k].name, name)
    ELSE 0

\* not x, for a column value
Falsy(cell) ==
    \/ cell.ty = "none"
    \/ cell.ty = "bool" /\ ~cell.v
    \/ cell.ty = "int" /\ cell.v = 0

\* lines 75-81 and 161-170 with the requested is_active left as it is
KeepRequestedActive(row) == row

\* lines 75-81 and 161-170: is_active follows stock_quantity
StockRule(row) ==
    IF row.stock_quantity.v = 0
    THEN [row EXCEPT !.is_active = Bool(FALSE)]
    ELSE IF row.stock_quantity.v > 0 /\ Falsy(row.is_active)
    THEN [row EXCEPT !.is_active = Bool(TRUE)]
    ELSE row

\* lines 60-72 with product_manager left out of the keyword arguments
NewProductWithoutManager(id, product_data, at) ==
    [id |-> Uuid(id), name |-> product_data.name,
     product_manager_id |-> Null, price |-> product_data.price,
     stock_quantity |-> product_data.stock_quantity, is_active |-> Null,
     created_at |-> at, updated_at |-> at]

\* models.Product(...) of lines 60-72: is_active is not among the keyword
\* arguments, so the attribute is None until the row is inserted
NewProduct(id, product_data, at) ==
    [id |-> Uuid(id), name |-> product_data.name,
     product_manager_id |-> product_data.product_manager_id, price |-> product_data.price,
     stock_quantity |-> product_data.stock_quantity, is_active |-> Null,
     created_at |-> at, updated_at |-> at]

\* ProductService.create_product
CreateProduct(rows, emps, id, product_data, at) ==
    IF ProductNamed(rows, product_data.name) # 0
    THEN Fail("ValueError", <<"Product with this exact name already exists.">>, rows)
    ELSE IF /\ product_data.product_manager_id.ty # "none"
            /\ RowOf(emps, product_data.product_manager_id.v) = 0
    THEN Fail("ValueError", <<"Product manager with ID '",
                              ToString(product_data.product_manager_id.v), "' not found.">>, rows)
    ELSE Done(StockRule(NewProduct(id, product_data, at)),
              Append(rows, StockRule(NewProduct(id, product_data, at))))

\* product_update_data.name: the value the request carries, else the default
\* of ProductUpdate.name (schemas.py line 170)
NameAttr(payload) ==
    IF "name" \in DOMAIN payload THEN payload.name ELSE Text(<<"Optional, str">>)

\* update_product without the check of lines 127-135
NameNeverTaken(rows, product_id, name, own) == FALSE

\* lines 127-135: the name is held by another product
NameTaken(rows, product_id, name, own) ==
    /\ name.ty # "none"
    /\ ~PyEq(name, own)
    /\ ProductNamed(rows, name) # 0
    /\ rows[ProductNamed(rows, name)].id # Uuid(product_id)

\* lines 141-154 raise nothing
ManagerPartPasses(update_data) == "product_manager_id" \notin DOMAIN update_data

\* lines 156-183 on the row at position i
CommitProduct(rows, i, update_data, at) ==
    IF SetAttrs(rows[i], update_data).stock_quantity.ty = "none"
    THEN Fail("TypeError", <<"'>' not supported between instances of 'NoneType' and 'int'">>,
              rows)
    ELSE Done([StockRule(SetAttrs(rows[i], update_data)) EXCEPT !.updated_at = at],
              [rows EXCEPT ![i] =
                  [StockRule(SetAttrs(rows[i], update_data)) EXCEPT !.updated_at = at]])

\* ProductService.update_product; lines 144 and 154 read the key
\* 'product_manager', which update_data never holds
UpdateProduct(rows, emps, product_id, payload, at) ==
    IF RowOf(rows, product_id) = 0
    THEN Fail("ValueError", <<"Product not found">>, rows)
    ELSE IF NameTaken(rows, product_id, NameAttr(payload), rows[RowOf(rows, product_id)].name)
    THEN Fail("ValueError", <<"Product with name '">> \o NameAttr(payload).v
                             \o <<"' already exists for another product.">>, rows)
    ELSE IF ~ManagerPartPasses(ModelDump(payload))
    THEN Fail("KeyError", <<"'product_manager'">>, rows)
    ELSE CommitProduct(rows, RowOf(rows, product_id), ModelDump(payload), at)

\* POST /products/
PostProduct(product_data) ==
    /\ http.n < MaxRequests
    /\ LET r == CreateProduct(products, employees, FreshId, product_data, Now)
       IN  /\ products' = r.rows
           /\ http' = Served("create_product", FreshId, product_data, r,
                             IF ~r.raised THEN 201 ELSE IF r.exc = "ValueError" THEN 400 ELSE 500)
    /\ UNCHANGED <<employees, message_logs, crud_frame>>

\* PATCH /products/{product_id}
PatchProduct(product_id, payload) ==
    /\ http.n < MaxRequests
    /\ LET r == UpdateProduct(products, employees, product_id, payload, Now)
       IN  /\ products' = r.rows
           /\ http' = Served("update_product", product_id, payload, r,
                             RouteStatus(r, 200, "Product not found"))
    /\ UNCHANGED <<employees, message_logs, crud_frame>>

\* DELETE /products/{product_id}
DeleteProduct(product_id) ==
    /\ http.n < MaxRequests
    /\ IF RowOf(products, product_id) = 0
       THEN /\ http' = Served("delete_product", product_id, <<>>,
                              Fail("ValueError", <<"Product not found">>, products), 404)
            /\ UNCHANGED products
       ELSE /\ products' = Without(products, RowOf(products, product_id))
            /\ http' = Served("delete_product", product_id, <<>>,
                              Done(products[RowOf(products, product_id)], products'), 204)
    /\ UNCHANGED <<employees, message_logs, crud_frame>>

\* GET /products/{product_id}
GetProduct(product_id) ==
    /\ http.n < MaxRequests
    /\ http' = IF RowOf(products, product_id) = 0
               THEN Served("get_product", product_id, <<>>,
                           Fail("HTTPException", <<"Product not found">>, products), 404)
               ELSE Served("get_product", product_id, <<>>,
                           Done(products[RowOf(products, product_id)], products), 200)
    /\ UNCHANGED <<employees, products, message_logs, crud_frame>>

\* the requests sent to the products routes
ProductTargets == {11, 12, 21, 99}
ProductData(nm, manager, stock, active) ==
    [name |-> Text(nm), product_manager_id |-> manager, price |-> Dec(5),
     stock_quantity |-> Num(stock), is_active |-> Bool(active)]
ProductRequests ==
    << ProductData(<<"N", "u">>, Null, 2, TRUE),
       ProductData(<<"N", "u">>, Uuid(1), 2, FALSE),
       ProductData(<<"N", "u">>, Null, 0, TRUE),
       ProductData(<<"O", "x">>, Uuid(2), 0, FALSE),
       ProductData(<<"O", "x">>, Uuid(9), 2, TRUE),
       ProductData(<<"A", "b">>, Null, 2, TRUE),
       ProductData(<<"Optional, str">>, Null, 2, TRUE) >>
ProductPayloads ==
    << [name |-> Text(<<"b", "a", "z">>)],
       [name |-> Text(<<"A", "b">>)],
       [name |-> Text(<<"N", "u">>), stock_quantity |-> Num(0)],
       [stock_quantity |-> Num(4)],
       [stock_quantity |-> Null],
       [is_active |-> Bool(FALSE)],
       [is_active |-> Bool(TRUE), stock_quantity |-> Num(0)],
       [product_manager_id |-> Uuid(2)],
       [product_manager_id |-> Uuid(9)],
       [product_manager_id |-> Null] >>

NextProducts ==
    \/ \E k \in 1..Len(ProductRequests) : PostProduct(ProductRequests[k])
    \/ \E id \in ProductTargets, k \in 1..Len(ProductPayloads) :
          PatchProduct(id, ProductPayloads[k])
    \/ \E id \in ProductTargets : DeleteProduct(id)
    \/ \E id \in ProductTargets : GetProduct(id)

SpecProducts == Init /\ [][NextProducts]_vars

-----------------------------------------------------------------------------
(* MessageLogService and the message_log routes *)

MaxLogRequests == 3

\* order_by(desc(timestamp)).first(): the positions of the rows no other row
\* is newer than; among rows of equal timestamp the order is the store's
Latest(rows) ==
    {i \in 1..Len(rows) : \A k \in 1..Len(rows) : rows[k].timestamp.v <= rows[i].timestamp.v}

\* POST /message_log/
PostMessageLog(message_log_data) ==
    /\ http.n < MaxLogRequests
    /\ IF /\ message_log_data.employee_id.ty # "none"
          /\ RowOf(employees, message_log_data.employee_id.v) = 0
       THEN /\ http' = Served("create_message_log", 0, message_log_data,
                              Fail("HTTPException",
                                   <<"Employee with ID ",
                                     ToString(message_log_data.employee_id.v), " not found.">>,
                                   message_logs), 404)
            /\ UNCHANGED message_logs
       ELSE /\ message_logs' =
                 Append(message_logs, CreateMessageLog(Len(message_logs) + 1, message_log_data))
            /\ http' = Served("create_message_log", Len(message_logs) + 1, message_log_data,
                              Done(CreateMessageLog(Len(message_logs) + 1, message_log_data),
                                   message_logs'), 201)
    /\ UNCHANGED <<employees, products, crud_frame>>

\* GET /message_log/last
GetLatestMessageLog ==
    /\ http.n < MaxLogRequests
    /\ IF message_logs = <<>>
       THEN http' = Served("get_latest_message_log", 0, <<>>,
                           Fail("HTTPException", <<"No message logs found.">>, message_logs), 404)
       ELSE \E i \in Latest(message_logs) :
               http' = Served("get_latest_message_log", i, <<>>,
                              Done(message_logs[i], message_logs), 200)
    /\ UNCHANGED <<employees, products, message_logs, crud_frame>>

\* the requests sent to the message_log routes
LogData(employee_id, text) ==
    [employee_id |-> employee_id, phone_number |-> Text(<<"+", "1">>),
     raw_message_content |-> text]
LogRequests ==
    {LogData(e, t) : e \in {Null, Uuid(1), Uuid(9)}, t \in {<<"m", "1">>, <<"m", "2">>}}

NextLogs ==
    \/ \E d \in LogRequests : PostMessageLog(d)
    \/ GetLatestMessageLog

SpecLogs == Init /\ [][NextLogs]_vars

-----------------------------------------------------------------------------
(* Properties of process_inbound_message and handle_message (under Spec) *)

\* the intent mapping interpret_query produced for the running message
IntentOf == interpreted.v[1]

\* that intent carries a non-empty error
ErrorIntent ==
    /\ interpreted.ty = "tuple"
    /\ "error" \in DOMAIN IntentOf.v
    /\ IntentOf.v.error # <<>>

\* lines 57-96 are over for the running message
AfterRespond == pc \in {"persist", "returned", "done"}

\* the running call of process_inbound_message is over
CallOver == (caller = "bot" /\ pc \in {"returned", "done"}) \/ (caller = "direct" /\ pc = "done")

\* C1: whenever the interpreter yields an intent with a non-empty error, the
\* response text is exactly "Sorry {name}, I couldn't understand your
\* request: {error}": rendering it raises nothing, so a response text exists
\* once lines 57-96 are over, and it is that text.
C1_ErrorIntentIsApologised ==
    (ErrorIntent /\ AfterRespond) =>
        /\ response.ty = "str"
        /\ response.v = UnderstandText(employee_name_for_response, IntentOf.v.error)

\* C2: execute_query is never invoked for a message whose intent carries an
\* error, and is invoked exactly once for a message whose intent carries none.
C2_ExecuteOnlyWithoutError ==
    (interpreted.ty = "tuple" /\ AfterRespond) =>
        exec_calls = IF ErrorIntent THEN 0 ELSE 1

\* C3: the value handed to execute_query (and inspected for "error") is the
\* intent mapping, the first component of the pair interpret_query returned.
C3_EngineReceivesTheMapping ==
    /\ llm_query_intent.ty # "none" =>
           llm_query_intent.ty = "dict" /\ llm_query_intent.v = IntentOf.v
    /\ exec_calls > 0 =>
           exec_arg.ty = "dict" /\ exec_arg.v = IntentOf.v

\* C4: for a message processed for an authenticated employee, the text sent
\* to the chat equals the response text process_inbound_message rendered.
C4_ReplyIsTheRenderedText ==
    (caller = "bot" /\ pc = "done" /\ ret.kind = "returned") =>
        /\ reply.ty = "str"
        /\ response.ty = "str"
        /\ reply.v = response.v

\* C5: the audit record persisted for a message holds the message's raw
\* text, the derived intent and the response text that was rendered.
C5_AuditRecordIsComplete ==
    ret.kind = "returned" =>
        /\ ret.log = message_logs[Len(message_logs)]
        /\ ret.log.raw_message_content = args.raw_message_content
        /\ ret.log.ai_interpreted_command.ty # "none"
        /\ ret.log.system_response_content.ty = "str"
        /\ ret.log.system_response_content.v = response.v

\* C6: every call of process_inbound_message creates exactly one audit
\* record: once the calls made so far are over, the log holds one record
\* for each of them.
C6_OneAuditRecordPerCall ==
    (pc = "idle" \/ CallOver) => Len(message_logs) = inbound_calls

\* C7: process_inbound_message never propagates an exception to its caller.
C7_NothingPropagates == ret.kind # "raised"

-----------------------------------------------------------------------------
(* Properties of execute_query (under SpecEngine) *)

\* the call made was given a mapping and returned
Answered == q_intent.ty = "dict" /\ ~q_out.raised

\* the intent's columns name a column declared neither on the primary entity
\* nor on the entity it names as join target
UnknownColumnRequested ==
    LET d == q_intent.v
        columns == Get(d, "columns", <<"*">>)
        join_table == Get(d, "join_table", NONE)
    IN  /\ Get(d, "table", NONE) \in model_map
        /\ \E i \in 1..Len(columns) :
               /\ columns[i] # "*"
               /\ ~IsColumn(d.table, columns[i])
               /\ join_table \in model_map => ~IsColumn(join_table, columns[i])

\* the intent names an unknown primary entity, an unknown join target, a
\* join column that is no relationship of the primary entity, an unknown
\* joined column, or a filter key that is on neither entity
SchemaViolation ==
    LET d == q_intent.v
        table_name == Get(d, "table", NONE)
        filters == Get(d, "filters", <<>>)
        join_table == Get(d, "join_table", NONE)
        join_on == Get(d, "join_on", NONE)
        join_columns == Get(d, "join_columns", PyNone)
    IN  \/ table_name \notin model_map
        \/ join_table # NONE /\ join_table \notin model_map
        \/ join_on # NONE
              /\ RelationshipName(join_on) \notin DOMAIN Relationships(table_name)
        \/ /\ join_table \in model_map
           /\ join_columns.ty = "list"
           /\ \E i \in 1..Len(join_columns.v) : ~IsColumn(join_table, join_columns.v[i])
        \/ \E i \in 1..Len(filters) :
               /\ ~IsColumn(table_name, filters[i].k)
               /\ join_table \in model_map => ~IsColumn(join_table, filters[i].k)

\* C8: execute_query never raises, whatever mapping it is given.
C8_ExecuteQueryNeverRaises == q_intent.ty = "dict" => ~q_out.raised

\* C9: an intent whose columns name an undeclared column is answered with the
\* one-element error sentinel, whatever the number of matching rows.
C9_UnknownColumnIsRejected ==
    (Answered /\ UnknownColumnRequested) => IsSentinel(q_out.result)

\* C10: an intent with an unknown primary entity, join target, relationship,
\* joined column or filter key is answered with the error sentinel and no
\* read is sent to storage.
C10_SchemaViolationIsRejectedUnread ==
    (Answered /\ Truthy(Get(q_intent.v, "table", NONE)) /\ SchemaViolation) =>
        IsSentinel(q_out.result) /\ q_out.reads = 0

-----------------------------------------------------------------------------
(* Properties of the limit of execute_query (under SpecEngine) *)

\* the call made returned rows (possibly none), not the error sentinel
RowsReturned == Answered /\ ~IsSentinel(q_out.result)

\* the intent of the call made, with its limit left out
WithoutLimit == PyDict([k \in (DOMAIN q_intent.v) \ {"limit"} |-> q_intent.v[k]])

\* the number of rows the intent of the call made matches
MatchingRows == Len(ExecuteQuery(Storage, WithoutLimit).result)

\* the word "null" in any letter case
IsNullWord(raw) ==
    /\ raw.ty = "str"
    /\ Len(raw.v) = 4
    /\ raw.v[1] \in {"n", "N"} /\ raw.v[2] \in {"u", "U"}
    /\ raw.v[3] \in {"l", "L"} /\ raw.v[4] \in {"l", "L"}

\* the limit is a number, or a string of digits with an optional sign
IsInteger(raw) == raw.ty = "int" \/ (raw.ty = "str" /\ IntOf(raw).ok)

\* the intent's limit is absent, or is no positive integer: a string that is
\* neither a number nor the word "null", zero, or a negative number
LimitAbsentOrInvalid ==
    \/ "limit" \notin DOMAIN q_intent.v
    \/ LET raw == q_intent.v.limit
       IN  \/ raw.ty = "str" /\ ~IsNullWord(raw) /\ ~IsInteger(raw)
           \/ IsInteger(raw) /\ IntOf(raw).n <= 0

Min(a, b) == IF a < b THEN a ELSE b

\* C11: with the limit absent, or present but no valid positive integer,
\* execute_query applies a limit of 1 and returns at most one row.
C11_DefaultLimitIsOne ==
    (RowsReturned /\ LimitAbsentOrInvalid) => Len(q_out.result) <= 1

\* C12: with the limit "null" in any letter case execute_query returns every
\* matching row; with a positive integer n, given as a number or as a numeric
\* string, it returns exactly min(n, number of matching rows) rows.
C12_NullUnboundedAndPositiveExact ==
    (RowsReturned /\ "limit" \in DOMAIN q_intent.v) =>
        LET raw == q_intent.v.limit
        IN  /\ IsNullWord(raw) => Len(q_out.result) = MatchingRows
            /\ (IsInteger(raw) /\ IntOf(raw).n > 0) =>
                   Len(q_out.result) = Min(IntOf(raw).n, MatchingRows)

\* a limit of "2" cut three matching rows down to two
C12_LimitCutsRows ==
    /\ RowsReturned
    /\ "limit" \in DOMAIN q_intent.v
    /\ q_intent.v.limit = PyStr(<<"2">>)
    /\ MatchingRows = 3
    /\ Len(q_out.result) = 2

-----------------------------------------------------------------------------
(* Properties of the rendered response *)

\* C13: end to end, when the backend returns the canonical count intent for
\* products and the table has N rows, process_inbound_message renders exactly
\* "There are N products in the database, {name}.".
C13_CountIsRenderedEndToEnd ==
    (AfterRespond /\ interpreted = InterpretQuery(Content(CountIntentText))) =>
        /\ response.ty = "str"
        /\ response.v = CountSentence(employee_name_for_response, Len(products), "products")

\* lines 57-96 called execute_query, which returned
Executed == q_intent.ty = "dict" /\ f_step.exec_calls = 1 /\ ~q_out.raised

\* the intent has the canonical count form: columns ["id"], filters {}
CountForm ==
    /\ "columns" \in DOMAIN q_intent.v /\ q_intent.v.columns = <<"id">>
    /\ "filters" \in DOMAIN q_intent.v /\ q_intent.v.filters = <<>>

-----------------------------------------------------------------------------
(* Properties of string filters (under SpecEngine) *)

\* v occurs in s as a run of characters, letter case aside
ContainsLiterally(s, v) ==
    \E i \in 1..(Len(s) - Len(v) + 1) : SubSeq(Lower(s), i, i + Len(v) - 1) = Lower(v)

\* the call made was a search of the primary table by one string filter on
\* its name column, without join and without limit
NameSearch ==
    /\ RowsReturned
    /\ q_intent.v.table \in model_map
    /\ DOMAIN q_intent.v \cap {"limit", "join_table", "join_on", "join_columns"} = {}
    /\ "filters" \in DOMAIN q_intent.v
    /\ Len(q_intent.v.filters) = 1
    /\ q_intent.v.filters[1].k = "name"
    /\ q_intent.v.filters[1].v.ty = "str"

\* the rows of the searched table whose name contains the filter value
LiteralMatches ==
    LET rows == Table(Storage, q_intent.v.table)
    IN  {i \in 1..Len(rows) :
            /\ rows[i].name.ty # "none"
            /\ ContainsLiterally(rows[i].name.v, q_intent.v.filters[1].v.v)}

\* C16: for every string filter value, SQL and pattern metacharacters
\* included, execute_query returns exactly the rows whose filtered column
\* contains the value as a literal case-insensitive substring, never more.
C16_StringFilterIsLiteral ==
    NameSearch => Len(q_out.result) = Cardinality(LiteralMatches)

-----------------------------------------------------------------------------
(* Properties of interpret_query (under Spec) *)

C18_ErrorIntentCarriesNothingElse ==
    ErrorIntent => DOMAIN IntentOf.v = {"error"}

-----------------------------------------------------------------------------
(* Properties of the event loop (under SpecLoop) *)

\* C19: while the handler of one update waits for the interpreter's backend
\* call, the handler of another update that has arrived can take its next
\* step: the backend call of one message blocks no other message.
C19_BackendCallBlocksNoOne ==
    \A u \in Updates : handler[u] = "in_backend" =>
        \A v \in Updates \ {u} :
            handler[v] \in {"queued", "replying"} => ENABLED HandlerStep(v)

-----------------------------------------------------------------------------
(* Properties of identity resolution (under Spec) *)

\* a call of process_inbound_message is running or over
CallMade == args.raw_message_content # NONE

\* the employees the caller id of the running call names
Named == {i \in 1..Len(employees) : PyEq(employees[i].id, args.employee_id)}

\* w is the first space-separated word of s
IsFirstWord(w, s) ==
    /\ Len(w) <= Len(s)
    /\ SubSeq(s, 1, Len(w)) = w
    /\ \A i \in 1..Len(w) : w[i] # " "
    /\ Len(w) < Len(s) => s[Len(w) + 1] = " "

\* C20: identity resolution is not fatal: with the caller id absent, naming
\* no employee, naming an employee without name, or with a failing lookup,
\* the call goes on to interpretation with the name "there"; otherwise the
\* name is the first word of the employee's name.
C20_IdentityIsNotFatal ==
    (CallMade /\ pc # "identify") =>
        /\ interpreted.ty = "none" => pc = "interpret"
        /\ IF \E i \in Named : employees[i].name.ty # "none" /\ employees[i].name.v # <<>>
           THEN \E i \in Named : IsFirstWord(employee_name_for_response, employees[i].name.v)
           ELSE employee_name_for_response = <<"there">>

-----------------------------------------------------------------------------
(* Properties of a one-hop join lookup *)

\* the backend answered with the join intent: table products, columns
\* [name], filter name = "Ab", join employees on product_manager_id, joined
\* columns [name]
ManagerLookup ==
    /\ AfterRespond
    /\ interpreted = InterpretQuery(Content(JoinIntentText))

\* product i is the one product the name filter "Ab" matches, and its
\* manager is employee e, who has a name
OneManagedProduct(i, e) ==
    /\ \A j \in 1..Len(products) : ILike(products[j].name.v, <<"A", "b">>) <=> j = i
    /\ products[i].product_manager_id = employees[e].id
    /\ employees[e].name.ty = "text"

\* C21: for the join intent (table products, columns [name], filter on the
\* product's name, join employees on product_manager_id, joined columns
\* [name]) with one product of that name whose manager has a name, the
\* response is the "Here is the information you requested" header followed
\* by one line that is exactly "Name: <manager's name>".
C21_JoinLookupNamesTheManager ==
    \A i \in 1..Len(products), e \in 1..Len(employees) :
        (ManagerLookup /\ OneManagedProduct(i, e)) =>
            /\ response.ty = "str"
            /\ response.v = <<"Here is the information you requested, ">>
                             \o employee_name_for_response
                             \o <<":\n", "Name", ": ">> \o employees[e].name.v

-----------------------------------------------------------------------------
(* Properties of the employees routes (under SpecEmployees) *)

\* two stored employees share a phone number or an email
SharedContact(rows) ==
    \E i, j \in 1..Len(rows) :
        /\ i # j
        /\ \/ rows[i].phone_number.ty = "text" /\ rows[i].phone_number = rows[j].phone_number
           \/ rows[i].email.ty = "text" /\ rows[i].email = rows[j].email

\* the phone number or the email of the last request is held by a stored
\* employee other than the one the request is about
WouldDuplicate ==
    /\ http.op \in {"create_employee", "update_employee"}
    /\ http.op = "update_employee" =>
           \E i \in 1..Len(http.employees_before) : http.employees_before[i].id = Uuid(http.id)
    /\ \E i \in 1..Len(http.employees_before) :
           /\ http.employees_before[i].id # Uuid(http.id)
           /\ \/ /\ "phone_number" \in DOMAIN http.req
                 /\ http.employees_before[i].phone_number = http.req.phone_number
              \/ /\ "email" \in DOMAIN http.req
                 /\ http.employees_before[i].email = http.req.email

\* C22: after any sequence of create_employee, update_employee and
\* delete_employee no two stored employees share a phone number and no two
\* share an email: a create or update that would introduce a duplicate
\* fails with a 400-class error and leaves the stored employees unchanged.
C22_ContactsStayUnique ==
    /\ ~SharedContact(employees)
    /\ WouldDuplicate => /\ http.status \in 400..499
                         /\ employees = http.employees_before

\* an update to the email of another employee was refused
C22_DuplicateEmailRefused ==
    /\ http.op = "update_employee"
    /\ WouldDuplicate
    /\ "email" \in DOMAIN http.req
    /\ http.status = 400
    /\ employees = http.employees_before

\* the employee the last request names was stored before it
TargetStored ==
    \E i \in 1..Len(http.employees_before) : http.employees_before[i].id = Uuid(http.id)

-----------------------------------------------------------------------------
(* Properties of the products routes (under SpecProducts) *)

\* two stored products have the same exact name
ProductsShareName(rows) ==
    \E i, j \in 1..Len(rows) : i # j /\ SqlEq(rows[i].name, rows[j].name)

\* the last request creates a product under, or renames one to, a name
\* that another stored product held
NameHeldByOther ==
    \/ /\ http.op = "create_product"
       /\ ProductNamed(http.products_before, http.req.name) # 0
    \/ /\ http.op = "update_product"
       /\ RowOf(http.products_before, http.id) # 0
       /\ "name" \in DOMAIN http.req
       /\ \E i \in 1..Len(http.products_before) :
             /\ http.products_before[i].id # Uuid(http.id)
             /\ SqlEq(http.products_before[i].name, http.req.name)

\* the detail of the answer is one of the two "already exists" messages
AlreadyExistsAnswer ==
    /\ http.detail # <<>>
    /\ http.detail[Len(http.detail)] \in
          {"Product with this exact name already exists.",
           "' already exists for another product."}

\* C23: after any sequence of create_product, update_product and
\* delete_product no two stored products have the same exact name: a create
\* or rename to a name held by another product fails with an "already
\* exists" error and leaves the stored products unchanged.
C23_ProductNamesStayUnique ==
    /\ ~ProductsShareName(products)
    /\ NameHeldByOther => /\ http.status \in 400..499
                          /\ AlreadyExistsAnswer
                          /\ products = http.products_before

\* a rename to the name of another product was refused
C23_RenameToHeldNameRefused ==
    /\ http.op = "update_product"
    /\ NameHeldByOther
    /\ http.status = 400
    /\ AlreadyExistsAnswer
    /\ products = http.products_before

\* the fields of a create request other than is_active
RequestFields == {"name", "product_manager_id", "price", "stock_quantity"}

\* the row holds the values of the request in those fields
CarriesRequest(row, req) == \A f \in RequestFields : row[f] = req[f]

\* the last request created a product
CreateAnswered == http.op = "create_product" /\ http.status = 201

\* the last request read the product that the request before it created
ReadAfterCreate ==
    /\ http.op = "get_product"
    /\ http.last.op = "create_product"
    /\ http.last.status = 201
    /\ http.last.id = http.id

ManagerUpdate ==
    /\ http.op = "update_product"
    /\ RowOf(http.products_before, http.id) # 0
    /\ "product_manager_id" \in DOMAIN http.req

\* C25: update_product called with a product_manager_id succeeds and sets
\* the manager when the id names an existing employee, fails with a
\* 400-class "not found" error when it names no employee, and clears the
\* manager when it is null; no other outcome occurs.
C25_ManagerUpdateOutcomes ==
    ManagerUpdate =>
        IF http.req.product_manager_id.ty = "none"
        THEN /\ http.status = 200
             /\ products[RowOf(products, http.id)].product_manager_id = Null
        ELSE IF RowOf(employees, http.req.product_manager_id.v) # 0
        THEN /\ http.status = 200
             /\ products[RowOf(products, http.id)].product_manager_id =
                    http.req.product_manager_id
        ELSE /\ http.status \in 400..499
             /\ \E k \in 1..Len(http.detail) : http.detail[k] = "' not found for update."

-----------------------------------------------------------------------------
(* Properties of the message_log routes (under SpecLogs) *)

\* C26: after any sequence of create_message_log operations,
\* get_latest_message_log returns the record that was created last.
C26_LatestIsCreatedLast ==
    (http.op = "get_latest_message_log" /\ message_logs # <<>>) =>
        /\ http.status = 200
        /\ http.body[1] = message_logs[Len(message_logs)]

-----------------------------------------------------------------------------
(* Properties of the bot's authentication gate (under Spec) *)

\* the employees whose telegram_id is the given one
KnownAs(telegram_id) == SelectSeq(employees, LAMBDA e : e.telegram_id.v = telegram_id)

\* the sender matches no employee, or an employee who is not authenticated
Refused(telegram_id) ==
    \/ KnownAs(telegram_id) = <<>>
    \/ ~KnownAs(telegram_id)[1].is_authenticated.v

\* the reply the bot owes a refused sender
RefusalText(telegram_id) ==
    IF KnownAs(telegram_id) = <<>>
    THEN PyStr(ShareContactText)
    ELSE PyStr(MagicLinkText(StrOf(KnownAs(telegram_id)[1].name)))

\* C29: for every inbound text message whose sender's Telegram id matches
\* no employee, or matches an employee with is_authenticated false,
\* handle_message makes no Interpreter call, runs no query and writes no
\* audit record, and replies with the contact-share request or a magic link
\* respectively.
C29_OnlyAuthenticatedReachThePipeline ==
    [][(pc = "idle" /\ caller' = "bot" /\ sender' # 0 /\ Refused(sender')) =>
          /\ pc' = "done"
          /\ reply' = RefusalText(sender')
          /\ interpreted' = PyNone
          /\ exec_calls' = exec_calls
          /\ storage_reads' = storage_reads
          /\ inbound_calls' = inbound_calls
          /\ message_logs' = message_logs]_vars

\* after one message was answered through the pipeline, a message of the
\* employee who is not authenticated got the magic link and left no record
C29_MagicLinkInsteadOfAnswer ==
    /\ pc = "done" /\ caller = "bot"
    /\ sender # 0 /\ KnownAs(sender) # <<>> /\ Refused(sender)
    /\ reply = RefusalText(sender)
    /\ interpreted = PyNone
    /\ handled = 2 /\ inbound_calls = 1 /\ Len(message_logs) = 1

-----------------------------------------------------------------------------
(* Properties of the handlers' storage sessions (under SpecLoop) *)

\* the handler of u has been started
Started(u) == handler[u] \in {"in_backend", "replying", "done"}

\* C30: each inbound message handled by the bot opens its own storage
\* session, shares it with no other message, and closes it on every exit
\* path of the handler (normal reply, early return for unknown or
\* unauthenticated senders, and exception); after all handlers finish no
\* session remains open.
C30_OneSessionPerMessage ==
    /\ \A u \in Updates :
          /\ Started(u) <=> sessions.of[u] # 0
          /\ InFlight(u) => sessions.of[u] \in sessions.open
          /\ handler[u] = "done" =>
                /\ sessions.path[u] \in {"normal", "early", "exception"}
                /\ sessions.of[u] \notin sessions.open
    /\ \A u, v \in Updates :
          (u # v /\ Started(u) /\ Started(v)) => sessions.of[u] # sessions.of[v]
    /\ (\A u \in Updates : handler[u] \in {"absent", "queued", "done"}) => sessions.open = {}

\* handlers that left by the normal path, by an early return and by an
\* exception are over, and no session is open
C30_AllPathsClosed ==
    /\ \E u, v, w \in Updates :
          /\ handler[u] = "done" /\ sessions.path[u] = "normal"
          /\ handler[v] = "done" /\ sessions.path[v] = "early"
          /\ handler[w] = "done" /\ sessions.path[w] = "exception"
    /\ sessions.made >= 3
    /\ sessions.open = {}

=============================================================================
